---- MODULE Spec2Model ----
(***************************************************************************)
(* Model of the two crawlers and the two search functions of the           *)
(* repository:                                                             *)
(*   WebScraper.crawl            (src/websearch.py)   sequential, a deque   *)
(*   OllamaWebCrawlerService     (src/advanced/smart_search.py)            *)
(*       crawl_page / start_crawling   recursive, one thread pool per page *)
(*   SearchEngine.search         (src/websearch.py)                        *)
(*   semantic_search             (src/advanced/smart_search.py)            *)
(* The web (pages, their links, their text), the HTTP transport and the    *)
(* language model are the environment: the pages are an input drawn in     *)
(* Init, the outcome of each GET and of each language-model request is a   *)
(* nondeterministic choice.                                                *)
(***************************************************************************)
EXTENDS Integers, Sequences, FiniteSets, Bags, TLC

VARIABLES
    crawler,        \* which crawler runs: "WebScraper" | "Ollama" | "none"
    site,           \* the web that is crawled (input, never changes)
    max_depth,      \* self.max_depth
    \* ---- WebScraper
    queue,          \* self.queue: deque of <<url, depth>>
    visited,        \* self.visited
    scraped_data,   \* self.scraped_data: url -> text
    pc,             \* position of crawl(): "loop" | "get" | "scrape" | "done"
    current,        \* (current_url, depth) of the running iteration
    \* ---- OllamaWebCrawlerService
    tasks,          \* every crawl_page call made so far, by call number
    visited_urls,   \* self.visited_urls
    db_lock,        \* self.db_lock: 0 when free, else the call holding it
    web_pages,      \* table web_pages: the committed rows, in rowid order
    pending,        \* rows written on self.conn and not committed yet
    run,            \* start_crawling: "crawling" | "reported"
    total,          \* "Total unique URLs crawled" printed by start_crawling
    \* ---- history of the run (not program state)
    gets,           \* bag of [url, depth]: every HTTP GET issued
    failed,         \* urls for which some GET failed
    failures,       \* number of failed GETs so far
    commits,        \* the rows committed to web_pages, in commit order
    db_errors,      \* number of sqlite3 errors raised so far
    \* ---- SearchEngine.search and semantic_search
    data,           \* the stored records in scan order: SearchEngine.data / web_pages
    called,         \* the function called last: "none" | "search" | "semantic_search"
    query,          \* its query argument
    case_sensitive, \* its case_sensitive argument (search)
    limit,          \* the limit asked for
    ollama,         \* the language model during the call: "up" | "down"
    results,        \* what the call returned
    again           \* <<urls>>: the urls the same call returned when it was repeated

crawlVars == <<crawler, site, max_depth, queue, visited, scraped_data, pc, current,
               tasks, visited_urls, db_lock, web_pages, run, total,
               gets, failed, failures, commits, pending, db_errors>>

searchVars == <<data, called, query, case_sensitive, limit, ollama, results, again>>

vars == <<crawlVars, searchVars>>

(***************************************************************************)
(* Bounds of the model.                                                    *)
(***************************************************************************)
\* max_depth is drawn from -1 .. MaxDepthBound
MaxDepthBound == 2
\* at most MaxDbErrors sqlite3 errors are raised in one run
MaxDbErrors == 1
\* max_depth of the level-order runs is drawn from -1 .. MaxLevelDepth
MaxLevelDepth == 3
\* at most this many GETs fail in one run
MaxFailures == 1

(***************************************************************************)
(* URLs, as urlparse splits them.                                          *)
(***************************************************************************)
Url(s, n, p, q) == [scheme |-> s, netloc |-> n, path |-> p, query |-> q]

Home   == Url("http", "example.com", "/", "")
PageA  == Url("http", "example.com", "/a", "")
PageB  == Url("http", "example.com", "/b", "")
PageC  == Url("http", "example.com", "/c", "")
\* another host, same path as PageA
OtherA == Url("http", "other.com", "/a", "")
\* PageA with a query string
PageAq == Url("http", "example.com", "/a", "x=1")
\* a seed that is not an http(s) URL
FtpHome == Url("ftp", "example.com", "/", "")
\* PageA's host and path with the scheme ftp
FtpA == Url("ftp", "example.com", "/a", "")
\* a subdomain of the seed's host
SubA == Url("http", "sub.example.com", "/a", "")

NoLinks == <<>>

\* A page: the absolute URLs of its anchors, in document order (urljoin already
\* applied), and whether its extracted text is non-empty.
Page(ls, txt) == [links |-> ls, text |-> txt]

\* The scenario of the specification: two in-domain links and one cross-domain link.
SiteScenario ==
    [seed |-> Home,
     pages |-> (Home :> Page(<<PageA, PageB, OtherA>>, "home")
             @@ PageA :> Page(NoLinks, "a")
             @@ PageB :> Page(NoLinks, "b"))]

\* A cycle: every page links back, PageB is linked from Home and from PageA.
SiteCycle ==
    [seed |-> Home,
     pages |-> (Home :> Page(<<PageA, PageB>>, "home")
             @@ PageA :> Page(<<PageB, Home>>, "a")
             @@ PageB :> Page(<<PageA>>, "b"))]

\* PageB is one hop from Home and two hops through PageA; PageC hangs off PageB.
SiteShortcut ==
    [seed |-> Home,
     pages |-> (Home :> Page(<<PageA, PageB>>, "home")
             @@ PageA :> Page(<<PageB>>, "a")
             @@ PageB :> Page(<<PageC>>, "b")
             @@ PageC :> Page(<<Home, OtherA>>, "c"))]

\* The same anchor twice on one page; a page without text.
SiteTwice ==
    [seed |-> Home,
     pages |-> (Home :> Page(<<PageA, PageA>>, "home")
             @@ PageA :> Page(<<OtherA>>, ""))]

\* Two anchors to the same path, one of them with a query string.
SiteQuery ==
    [seed |-> Home,
     pages |-> (Home :> Page(<<PageA, PageAq>>, "home")
             @@ PageA :> Page(NoLinks, "a")
             @@ PageAq :> Page(NoLinks, "a"))]

\* The seed has the scheme ftp.
SiteFtp ==
    [seed |-> FtpHome,
     pages |-> (FtpHome :> Page(<<PageA>>, "home")
             @@ PageA :> Page(NoLinks, "a"))]

\* A same-host ftp link, a subdomain link and an in-scope link.
SiteSchemes ==
    [seed |-> Home,
     pages |-> (Home :> Page(<<FtpA, SubA, PageA>>, "home")
             @@ PageA :> Page(NoLinks, "a"))]

Sites == {SiteScenario, SiteCycle, SiteShortcut, SiteTwice, SiteQuery, SiteFtp,
          SiteSchemes}

\* A page nobody described is a page without anchors and without text.
PageOf(u) == IF u \in DOMAIN site.pages THEN site.pages[u] ELSE Page(NoLinks, "")

\* requests accepts these schemes only; any other raises InvalidSchema, which is a
\* RequestException.
HttpSchemes == {"http", "https"}

\* The outcomes a GET of u can have: a 2xx body, or a RequestException
\* (timeout, connection error, raise_for_status on 4xx/5xx).
Responses(u) ==
    IF u.scheme \notin HttpSchemes THEN {"err"}
    ELSE {"ok"} \cup (IF failures < MaxFailures THEN {"err"} ELSE {})

\* The record of one more GET.
Logged(u, d) == gets (+) SetToBag({[url |-> u, depth |-> d]})

\* How many GETs were issued for u.
GetCount(u) ==
    LET hits == {g \in BagToSet(gets) : g.url = u}
        RECURSIVE Sum(_)
        Sum(S) == IF S = {} THEN 0
                  ELSE LET g == CHOOSE x \in S : TRUE
                       IN  CopiesIn(g, gets) + Sum(S \ {g})
    IN  Sum(hits)

(***************************************************************************)
(* WebScraper (src/websearch.py)                                           *)
(***************************************************************************)
\* self.domain = urlparse(start_url).netloc
domain == site.seed.netloc

\* _extract_links: the anchors of the page whose netloc is the crawl's domain and
\* that are not in self.visited, in document order.
extract_links(u) ==
    SelectSeq(PageOf(u).links, LAMBDA l : l.netloc = domain /\ l \notin visited)

\* The new tasks put at the head of the queue (a stack).
Prepended(q, ls, d) ==
    [k \in 1..Len(SelectSeq(ls, LAMBDA l : l \notin visited)) |->
        <<SelectSeq(ls, LAMBDA l : l \notin visited)[k], d + 1>>] \o q

\* lines 116-118: append (link, depth + 1) for every link not in self.visited.
Appended(q, ls, d) ==
    q \o [k \in 1..Len(SelectSeq(ls, LAMBDA l : l \notin visited)) |->
            <<SelectSeq(ls, LAMBDA l : l \notin visited)[k], d + 1>>]

\* The depth test with the bound excluded.
SkippedAtMaxDepth(u, d) == u \in visited \/ d >= max_depth

\* line 101: the popped task is skipped.
Skipped(u, d) == u \in visited \/ d > max_depth

\* lines 98-105: pop the head of the queue; skip it, or mark it visited and go on
\* to fetch it.
crawl_pop ==
    /\ crawler = "WebScraper" /\ pc = "loop" /\ queue # <<>>
    /\ LET u == Head(queue)[1]
           d == Head(queue)[2]
       IN  /\ queue' = Tail(queue)
           /\ IF Skipped(u, d)
              THEN UNCHANGED <<visited, pc, current>>
              ELSE /\ visited' = visited \cup {u}
                   /\ current' = <<u, d>>
                   /\ pc' = "get"
    /\ UNCHANGED <<searchVars, crawler, site, max_depth, scraped_data, tasks, visited_urls,
                   db_lock, web_pages, run, total, gets, failed, failures, commits, pending, db_errors>>

\* line 108: page_content = self._get_page_content(current_url); None on a
\* RequestException (lines 119-120), and the loop goes on.
crawl_get ==
    /\ crawler = "WebScraper" /\ pc = "get"
    /\ \E r \in Responses(current[1]) :
          /\ gets' = Logged(current[1], current[2])
          /\ IF r = "ok"
             THEN pc' = "scrape" /\ UNCHANGED <<failed, failures>>
             ELSE /\ pc' = "loop"
                  /\ failed' = failed \cup {current[1]}
                  /\ failures' = failures + 1
    /\ UNCHANGED <<searchVars, crawler, site, max_depth, queue, visited, scraped_data, current,
                   tasks, visited_urls, db_lock, web_pages, run, total, commits, pending, db_errors>>

\* scrape_page returning the text whatever the GET did.
scrape_page_despite_error(u, r) == PageOf(u).text

\* The text scrape_page returns for response r: None after a failed GET.
scrape_page(u, r) == IF r = "ok" THEN PageOf(u).text ELSE ""

\* lines 110-118: scrape_page fetches the page again (line 82) and the text, when
\* there is one, is stored; then the links of the first body are appended when
\* depth < max_depth.
crawl_scrape ==
    /\ crawler = "WebScraper" /\ pc = "scrape"
    /\ LET u == current[1]
           d == current[2]
       IN  \E r \in Responses(u) :
              /\ gets' = Logged(u, d)
              /\ IF r = "ok"
                 THEN UNCHANGED <<failed, failures>>
                 ELSE failed' = failed \cup {u} /\ failures' = failures + 1
              /\ scraped_data' =
                    IF scrape_page(u, r) # ""
                    THEN [x \in DOMAIN scraped_data \cup {u} |->
                            IF x = u THEN scrape_page(u, r) ELSE scraped_data[x]]
                    ELSE scraped_data
              /\ queue' = IF d < max_depth
                          THEN Appended(queue, extract_links(u), d)
                          ELSE queue
    /\ pc' = "loop"
    /\ UNCHANGED <<searchVars, crawler, site, max_depth, visited, current,
                   tasks, visited_urls, db_lock, web_pages, run, total, commits, pending, db_errors>>

\* line 98 and line 122: the queue is empty, crawl returns.
crawl_return ==
    /\ crawler = "WebScraper" /\ pc = "loop" /\ queue = <<>>
    /\ pc' = "done"
    /\ UNCHANGED <<searchVars, crawler, site, max_depth, queue, visited, scraped_data, current,
                   tasks, visited_urls, db_lock, web_pages, run, total,
                   gets, failed, failures, commits, pending, db_errors>>

(***************************************************************************)
(* OllamaWebCrawlerService (src/advanced/smart_search.py)                  *)
(***************************************************************************)
\* ThreadPoolExecutor(max_workers=5)
MaxWorkers == 5

\* self.base_domain = urlparse(base_url).netloc
base_domain == site.seed.netloc

\* The check without its netloc test.
is_valid_url_any_host(u) == u.scheme \in HttpSchemes /\ u \notin visited_urls

\* lines 94-104
is_valid_url(u) ==
    /\ u.scheme \in HttpSchemes
    /\ u.netloc = base_domain
    /\ u \notin visited_urls

\* One call crawl_page(url, current_depth): parent is the call whose executor it
\* was submitted to (0: called by start_crawling), i the next link to look at,
\* resp the outcome of its GET, body the text of the response it holds
\* (page_data), wrote whether it committed a row.
Call(u, d, p) == [url |-> u, depth |-> d, parent |-> p, pc |-> "queued",
                  i |-> 1, resp |-> "none", body |-> "", wrote |-> FALSE]

Calls == DOMAIN tasks

\* Every call of the run, the waiting call included.
EveryCall(t) == Calls

\* The calls submitted to the executor that call t created.
Children(t) == {s \in Calls : tasks[s].parent = t}

\* A worker thread of an executor is busy from the moment it picks a call up until
\* the call returns.
Running(s) == tasks[s].pc \notin {"queued", "done"}

\* The executor the call was submitted to has a thread for it.
PoolHasWorker(t) ==
    \/ tasks[t].parent = 0
    \/ Cardinality({s \in Children(tasks[t].parent) : Running(s)}) < MaxWorkers

\* lines 85-92: scheme://netloc joined with the path; query and fragment are
\* dropped.  No line of the repository calls it.
sanitize_url(u) == [u EXCEPT !.query = ""]

\* The guard without its depth test.
RejectedIgnoringDepth(t) == ~is_valid_url(tasks[t].url)

\* line 127: the guard of crawl_page.
Rejected(t) == tasks[t].depth > max_depth \/ ~is_valid_url(tasks[t].url)

\* lines 125-128: a thread starts the call and evaluates the guard.
crawl_page_enter(t) ==
    /\ crawler = "Ollama" /\ tasks[t].pc = "queued" /\ PoolHasWorker(t)
    /\ tasks' = [tasks EXCEPT ![t].pc = IF Rejected(t) THEN "done" ELSE "get"]
    /\ UNCHANGED <<searchVars, crawler, site, max_depth, queue, visited, scraped_data, pc, current,
                   visited_urls, db_lock, web_pages, run, total,
                   gets, failed, failures, commits, pending, db_errors>>

\* lines 131-136 and 170-171: the GET; a RequestException ends the call.
crawl_page_get(t) ==
    /\ crawler = "Ollama" /\ tasks[t].pc = "get"
    /\ \E r \in Responses(tasks[t].url) :
          /\ gets' = Logged(tasks[t].url, tasks[t].depth)
          /\ tasks' = [tasks EXCEPT ![t].resp = r,
                                    ![t].body = IF r = "ok" THEN PageOf(tasks[t].url).text
                                                ELSE "",
                                    ![t].pc = IF r = "ok" THEN "store" ELSE "done"]
          /\ IF r = "ok"
             THEN UNCHANGED <<failed, failures>>
             ELSE /\ failed' = failed \cup {tasks[t].url}
                  /\ failures' = failures + 1
    /\ UNCHANGED <<searchVars, crawler, site, max_depth, queue, visited, scraped_data, pc, current,
                   visited_urls, db_lock, web_pages, run, total, commits, pending, db_errors>>

\* One row of web_pages (the columns the claims look at).
Row(u, c) == [url |-> u, content |-> c]

\* INSERT without OR REPLACE and without the primary key: the row is added.
UpsertKeepingOldRow(tbl, u, c) == Append(tbl, Row(u, c))

\* INSERT OR REPLACE on the primary key url: the row that holds the key is
\* deleted, the new row gets a new rowid.
Upsert(tbl, u, c) ==
    LET OtherKey(r) == r.url # u
    IN  Append(SelectSeq(tbl, OtherKey), Row(u, c))

\* self.conn.commit(): the rows of the open transaction reach the table in the
\* order they were written.
RECURSIVE Committed(_, _)
Committed(tbl, rows) ==
    IF rows = <<>> THEN tbl
    ELSE Committed(Upsert(tbl, Head(rows).url, Head(rows).content), Tail(rows))

\* What a call on the database can do: return, or raise a sqlite3 error
\* (database is locked; disk full).  After a failed commit the transaction is
\* still open ("busy") or sqlite has rolled it back.
ExecuteOutcomes == {"ok"} \cup (IF db_errors < MaxDbErrors THEN {"raised"} ELSE {})
CommitOutcomes ==
    {"ok"} \cup (IF db_errors < MaxDbErrors THEN {"busy", "rolled_back"} ELSE {})

\* The INSERT executed without taking db_lock.
crawl_page_insert_unlocked(t) ==
    /\ crawler = "Ollama" /\ tasks[t].pc = "store"
    /\ \E r \in ExecuteOutcomes :
          IF r = "ok"
          THEN /\ db_lock' = t
               /\ pending' = Append(pending, Row(tasks[t].url, tasks[t].body))
               /\ tasks' = [tasks EXCEPT ![t].pc = "commit"]
               /\ UNCHANGED db_errors
          ELSE /\ tasks' = [tasks EXCEPT ![t].pc = "done"]
               /\ db_errors' = db_errors + 1
               /\ UNCHANGED <<db_lock, pending>>
    /\ UNCHANGED <<web_pages, commits>>
    /\ UNCHANGED <<searchVars, crawler, site, max_depth, queue, visited, scraped_data, pc, current,
                   visited_urls, run, total, gets, failed, failures>>

\* lines 139-150: take db_lock and execute INSERT OR REPLACE.  If execute raises,
\* the with block releases db_lock and line 172 ends the call.
crawl_page_insert(t) ==
    /\ crawler = "Ollama" /\ tasks[t].pc = "store" /\ db_lock = 0
    /\ \E r \in ExecuteOutcomes :
          IF r = "ok"
          THEN /\ db_lock' = t
               /\ pending' = Append(pending, Row(tasks[t].url, tasks[t].body))
               /\ tasks' = [tasks EXCEPT ![t].pc = "commit"]
               /\ UNCHANGED db_errors
          ELSE /\ tasks' = [tasks EXCEPT ![t].pc = "done"]
               /\ db_errors' = db_errors + 1
               /\ UNCHANGED <<db_lock, pending>>
    /\ UNCHANGED <<web_pages, commits>>
    /\ UNCHANGED <<searchVars, crawler, site, max_depth, queue, visited, scraped_data, pc, current,
                   visited_urls, run, total, gets, failed, failures>>

\* The commit with db_lock taken by acquire() and released by release() after
\* the commit: a commit that raises leaves it held.
crawl_page_commit_keeping_lock(t) ==
    /\ crawler = "Ollama" /\ tasks[t].pc = "commit"
    /\ \E r \in CommitOutcomes :
          IF r = "ok"
          THEN /\ web_pages' = Committed(web_pages, pending)
               /\ commits' = commits \o pending
               /\ pending' = <<>>
               /\ db_lock' = 0
               /\ tasks' = [tasks EXCEPT ![t].pc = "visit", ![t].wrote = TRUE]
               /\ UNCHANGED db_errors
          ELSE /\ pending' = IF r = "busy" THEN pending ELSE <<>>
               /\ tasks' = [tasks EXCEPT ![t].pc = "done"]
               /\ db_errors' = db_errors + 1
               /\ UNCHANGED <<web_pages, commits, db_lock>>
    /\ UNCHANGED <<searchVars, crawler, site, max_depth, queue, visited, scraped_data, pc, current,
                   visited_urls, run, total, gets, failed, failures>>

\* line 151 and the end of the with block: commit, release db_lock.  If commit
\* raises, the with block releases db_lock and line 172 ends the call.
crawl_page_commit(t) ==
    /\ crawler = "Ollama" /\ tasks[t].pc = "commit"
    /\ \E r \in CommitOutcomes :
          IF r = "ok"
          THEN /\ web_pages' = Committed(web_pages, pending)
               /\ commits' = commits \o pending
               /\ pending' = <<>>
               /\ tasks' = [tasks EXCEPT ![t].pc = "visit", ![t].wrote = TRUE]
               /\ UNCHANGED db_errors
          ELSE /\ pending' = IF r = "busy" THEN pending ELSE <<>>
               /\ tasks' = [tasks EXCEPT ![t].pc = "done"]
               /\ db_errors' = db_errors + 1
               /\ UNCHANGED <<web_pages, commits>>
    /\ db_lock' = 0
    /\ UNCHANGED <<searchVars, crawler, site, max_depth, queue, visited, scraped_data, pc, current,
                   visited_urls, run, total, gets, failed, failures>>

\* lines 157-160: every anchor of the page, resolved.
LinksOf(t) == PageOf(tasks[t].url).links

\* line 156: the page's links are followed.
Expands(t) == tasks[t].depth < max_depth /\ LinksOf(t) # <<>>

\* line 153: self.visited_urls.add(url); then line 156.
crawl_page_visit(t) ==
    /\ crawler = "Ollama" /\ tasks[t].pc = "visit"
    /\ visited_urls' = visited_urls \cup {tasks[t].url}
    /\ tasks' = [tasks EXCEPT ![t].pc = IF Expands(t) THEN "submit"
                                        ELSE IF tasks[t].depth < max_depth THEN "wait"
                                        ELSE "done"]
    /\ UNCHANGED <<searchVars, crawler, site, max_depth, queue, visited, scraped_data, pc, current,
                   db_lock, web_pages, run, total, gets, failed, failures, commits, pending, db_errors>>

\* lines 164-167: one turn of the list comprehension: the next link is submitted
\* to this call's executor if is_valid_url accepts it now.
crawl_page_submit(t) ==
    /\ crawler = "Ollama" /\ tasks[t].pc = "submit"
    /\ LET l == LinksOf(t)[tasks[t].i]
           moved == [tasks EXCEPT ![t].i = @ + 1,
                                  ![t].pc = IF tasks[t].i = Len(LinksOf(t))
                                            THEN "wait" ELSE "submit"]
       IN  tasks' = IF is_valid_url(l)
                    THEN Append(moved, Call(l, tasks[t].depth + 1, t))
                    ELSE moved
    /\ UNCHANGED <<searchVars, crawler, site, max_depth, queue, visited, scraped_data, pc, current,
                   visited_urls, db_lock, web_pages, run, total,
                   gets, failed, failures, commits, pending, db_errors>>

\* The call returns without waiting for the calls it submitted.
crawl_page_no_wait(t) ==
    /\ crawler = "Ollama" /\ tasks[t].pc = "wait"
    /\ tasks' = [tasks EXCEPT ![t].pc = "done"]
    /\ UNCHANGED <<searchVars, crawler, site, max_depth, queue, visited, scraped_data, pc, current,
                   visited_urls, db_lock, web_pages, run, total,
                   gets, failed, failures, commits, pending, db_errors>>

\* line 168 and the end of the with block: every submitted call has returned.
crawl_page_wait(t) ==
    /\ crawler = "Ollama" /\ tasks[t].pc = "wait"
    /\ \A s \in Children(t) : tasks[s].pc = "done"
    /\ tasks' = [tasks EXCEPT ![t].pc = "done"]
    /\ UNCHANGED <<searchVars, crawler, site, max_depth, queue, visited, scraped_data, pc, current,
                   visited_urls, db_lock, web_pages, run, total,
                   gets, failed, failures, commits, pending, db_errors>>

\* lines 180-183: crawl_page(self.base_url) has returned; the total is printed.
start_crawling_return ==
    /\ crawler = "Ollama" /\ run = "crawling" /\ tasks[1].pc = "done"
    /\ run' = "reported"
    /\ total' = Cardinality(visited_urls)
    /\ UNCHANGED <<searchVars, crawler, site, max_depth, queue, visited, scraped_data, pc, current,
                   tasks, visited_urls, db_lock, web_pages, gets, failed, failures, commits, pending, db_errors>>

(***************************************************************************)
(* The crawl runs.                                                         *)
(***************************************************************************)
Empty == [x \in {} |-> ""]

Init ==
    /\ crawler \in {"WebScraper", "Ollama"}
    /\ site \in Sites
    /\ max_depth \in -1..MaxDepthBound
    /\ queue = IF crawler = "WebScraper" THEN <<<<site.seed, 0>>>> ELSE <<>>
    /\ visited = {}
    /\ scraped_data = Empty
    /\ pc = IF crawler = "WebScraper" THEN "loop" ELSE "idle"
    /\ current = <<site.seed, 0>>
    /\ tasks = IF crawler = "Ollama" THEN <<Call(site.seed, 0, 0)>> ELSE <<>>
    /\ visited_urls = {}
    /\ db_lock = 0
    /\ web_pages = <<>>
    /\ run = IF crawler = "Ollama" THEN "crawling" ELSE "idle"
    /\ total = 0
    /\ gets = EmptyBag
    /\ failed = {}
    /\ failures = 0
    /\ commits = <<>>
    /\ pending = <<>>
    /\ db_errors = 0
    /\ data = <<>>
    /\ called = "none"
    /\ query = <<>>
    /\ case_sensitive = FALSE
    /\ limit = 0
    /\ ollama = "down"
    /\ results = <<>>
    /\ again = <<>>

Next ==
    \/ crawl_pop
    \/ crawl_get
    \/ crawl_scrape
    \/ crawl_return
    \/ \E t \in Calls : crawl_page_enter(t)
    \/ \E t \in Calls : crawl_page_get(t)
    \/ \E t \in Calls : crawl_page_insert(t)
    \/ \E t \in Calls : crawl_page_commit(t)
    \/ \E t \in Calls : crawl_page_visit(t)
    \/ \E t \in Calls : crawl_page_submit(t)
    \/ \E t \in Calls : crawl_page_wait(t)
    \/ start_crawling_return

Spec == Init /\ [][Next]_vars

\* The same runs under a scheduler that does not stop: as long as some thread
\* can take a step, a step is taken.  crawl() runs in one thread; the threads of
\* the executors are run by the operating system, and every GET returns or
\* raises (timeout=10).
LiveSpec == Spec /\ WF_vars(Next)

(***************************************************************************)
(* Level order.  WebScraper.crawl on a site where PageC is two hops from   *)
(* the seed through PageA and three hops through PageB and PageD.          *)
(***************************************************************************)
PageD == Url("http", "example.com", "/d", "")

SiteDetour ==
    [seed |-> Home,
     pages |-> (Home :> Page(<<PageA, PageB>>, "home")
             @@ PageA :> Page(<<PageC>>, "a")
             @@ PageB :> Page(<<PageD>>, "b")
             @@ PageC :> Page(NoLinks, "c")
             @@ PageD :> Page(<<PageC, Home>>, "d"))]

LevelInit ==
    /\ crawler = "WebScraper"
    /\ site = SiteDetour
    /\ max_depth \in -1..MaxLevelDepth
    /\ queue = <<<<site.seed, 0>>>>
    /\ visited = {}
    /\ scraped_data = Empty
    /\ pc = "loop"
    /\ current = <<site.seed, 0>>
    /\ tasks = <<>>
    /\ visited_urls = {}
    /\ db_lock = 0
    /\ web_pages = <<>>
    /\ run = "idle"
    /\ total = 0
    /\ gets = EmptyBag
    /\ failed = {}
    /\ failures = 0
    /\ commits = <<>>
    /\ pending = <<>>
    /\ db_errors = 0
    /\ data = <<>>
    /\ called = "none"
    /\ query = <<>>
    /\ case_sensitive = FALSE
    /\ limit = 0
    /\ ollama = "down"
    /\ results = <<>>
    /\ again = <<>>

LevelNext ==
    \/ crawl_pop
    \/ crawl_get
    \/ crawl_scrape
    \/ crawl_return

LevelSpec == LevelInit /\ [][LevelNext]_vars

(***************************************************************************)
(* The store under concurrent writers.  The run has come to the point      *)
(* where the seed page is committed and the calls for its three anchors    *)
(* (two to the same URL) each hold a response and are about to write it.   *)
(* The page behind a URL may have changed between two GETs, so two calls   *)
(* for one URL may hold different bodies.                                  *)
(***************************************************************************)
SiteStore ==
    [seed |-> Home,
     pages |-> (Home :> Page(<<PageA, PageA, PageB>>, "home")
             @@ PageA :> Page(NoLinks, "a")
             @@ PageB :> Page(NoLinks, "b"))]

\* The texts a page is seen with.
Bodies == {"a", "b"}

\* The call for link l of the seed page, holding the body b.
Writer(l, b) == [Call(l, 1, 1) EXCEPT !.pc = "store", !.resp = "ok", !.body = b]

StoreInit ==
    /\ crawler = "Ollama"
    /\ site = SiteStore
    /\ max_depth = 1
    /\ queue = <<>>
    /\ visited = {}
    /\ scraped_data = Empty
    /\ pc = "idle"
    /\ current = <<site.seed, 0>>
    /\ \E b1, b2, b3 \in Bodies :
          tasks = <<[Call(Home, 0, 0) EXCEPT !.pc = "wait", !.i = 4, !.resp = "ok",
                                            !.body = "home", !.wrote = TRUE],
                    Writer(PageA, b1), Writer(PageA, b2), Writer(PageB, b3)>>
    /\ visited_urls = {Home}
    /\ db_lock = 0
    /\ web_pages = <<Row(Home, "home")>>
    /\ run = "crawling"
    /\ total = 0
    /\ gets = SetToBag({[url |-> Home, depth |-> 0], [url |-> PageB, depth |-> 1]})
              (+) [x \in {[url |-> PageA, depth |-> 1]} |-> 2]
    /\ failed = {}
    /\ failures = 0
    /\ commits = <<Row(Home, "home")>>
    /\ pending = <<>>
    /\ db_errors = 0
    /\ data = <<>>
    /\ called = "none"
    /\ query = <<>>
    /\ case_sensitive = FALSE
    /\ limit = 0
    /\ ollama = "down"
    /\ results = <<>>
    /\ again = <<>>

StoreNext ==
    \/ \E t \in Calls : crawl_page_insert(t)
    \/ \E t \in Calls : crawl_page_commit(t)
    \/ \E t \in Calls : crawl_page_visit(t)
    \/ \E t \in Calls : crawl_page_wait(t)
    \/ start_crawling_return

StoreSpec == StoreInit /\ [][StoreNext]_vars

(***************************************************************************)
(* Nested fan-out.  Every call crawl_page that follows links creates its   *)
(* own ThreadPoolExecutor(max_workers=5) (line 163).  The seed page links  *)
(* to two pages and each of them has three anchors to the same page.       *)
(***************************************************************************)
SiteFanOut ==
    [seed |-> Home,
     pages |-> (Home :> Page(<<PageA, PageB>>, "home")
             @@ PageA :> Page(<<PageC, PageC, PageC>>, "a")
             @@ PageB :> Page(<<PageC, PageC, PageC>>, "b")
             @@ PageC :> Page(NoLinks, "c"))]

\* A call that has stored and visited its page and is about to submit its links.
Submitter(u, d, p) ==
    [Call(u, d, p) EXCEPT !.pc = "submit", !.resp = "ok", !.body = PageOf(u).text,
                          !.wrote = TRUE]

\* A run of start_crawling on that site with max_depth 2, at the point where the
\* seed page and the two pages it links to are stored and visited: the seed's
\* call waits for its executor, the call for PageA has submitted its three
\* links and waits for its own executor, the call for PageB is about to submit
\* its links.  No sqlite3 error is raised in this run.
FanOutInit ==
    /\ crawler = "Ollama"
    /\ site = SiteFanOut
    /\ max_depth = 2
    /\ queue = <<>>
    /\ visited = {}
    /\ scraped_data = Empty
    /\ pc = "idle"
    /\ current = <<site.seed, 0>>
    /\ tasks = <<[Submitter(Home, 0, 0) EXCEPT !.pc = "wait", !.i = 3],
                 [Submitter(PageA, 1, 1) EXCEPT !.pc = "wait", !.i = 4],
                 Submitter(PageB, 1, 1),
                 Call(PageC, 2, 2), Call(PageC, 2, 2), Call(PageC, 2, 2)>>
    /\ visited_urls = {Home, PageA, PageB}
    /\ db_lock = 0
    /\ web_pages \in {<<Row(Home, "home"), Row(PageA, "a"), Row(PageB, "b")>>,
                      <<Row(Home, "home"), Row(PageB, "b"), Row(PageA, "a")>>}
    /\ run = "crawling"
    /\ total = 0
    /\ gets = SetToBag({[url |-> Home, depth |-> 0], [url |-> PageA, depth |-> 1],
                        [url |-> PageB, depth |-> 1]})
    /\ failed = {}
    /\ failures = 0
    /\ commits = web_pages
    /\ pending = <<>>
    /\ db_errors = MaxDbErrors
    /\ data = <<>>
    /\ called = "none"
    /\ query = <<>>
    /\ case_sensitive = FALSE
    /\ limit = 0
    /\ ollama = "down"
    /\ results = <<>>
    /\ again = <<>>

FanOutNext ==
    \/ \E t \in Calls : crawl_page_enter(t)
    \/ \E t \in Calls : crawl_page_get(t)
    \/ \E t \in Calls : crawl_page_insert(t)
    \/ \E t \in Calls : crawl_page_commit(t)
    \/ \E t \in Calls : crawl_page_visit(t)
    \/ \E t \in Calls : crawl_page_submit(t)
    \/ \E t \in Calls : crawl_page_wait(t)
    \/ start_crawling_return

FanOutSpec == FanOutInit /\ [][FanOutNext]_vars

(***************************************************************************)
(* Strings: sequences of characters.  "I." is U+0130 (capital I with dot   *)
(* above), the one character whose str.lower() is two characters long:     *)
(* "i" and the combining dot U+0307, written "'".                          *)
(***************************************************************************)
\* str.lower() of one character.
LowerChar(c) ==
    CASE c = "X" -> <<"x">>
      [] c = "Y" -> <<"y">>
      [] c = "Z" -> <<"z">>
      [] c = "H" -> <<"h">>
      [] c = "I." -> <<"i", "'">>
      [] OTHER -> <<c>>

\* str.lower(): the characters of s, each replaced by its lower-case form.
RECURSIVE lower(_)
lower(s) ==
    IF s = <<>> THEN <<>>
    ELSE IF Len(s) = 1 THEN LowerChar(s[1])
    ELSE lower(SubSeq(s, 1, Len(s) \div 2)) \o lower(SubSeq(s, Len(s) \div 2 + 1, Len(s)))

\* SQLite folds the 26 ASCII letters only when it compares with LIKE.
SqlLowerChar(c) == IF c = "I." THEN c ELSE LowerChar(c)[1]

SqlLower(s) == [k \in DOMAIN s |-> SqlLowerChar(s[k])]

\* The 0-based positions at which q occurs in s.
Occurrences(s, q) ==
    {k \in 0..(Len(s) - Len(q)) : SubSeq(s, k + 1, k + Len(q)) = q}

\* str.find: the lowest position, or -1.
find(s, q) ==
    LET occ == Occurrences(s, q)
    IN  IF occ = {} THEN -1 ELSE CHOOSE k \in occ : \A j \in occ : k <= j

\* q in s
Contains(s, q) == find(s, q) # -1

\* s[a:b] for 0 <= a and 0 <= b <= len(s)
Slice(s, a, b) == SubSeq(s, a + 1, b)

Max(a, b) == IF a >= b THEN a ELSE b
Min(a, b) == IF a <= b THEN a ELSE b

\* s repeated n times
Times(s, n) == [k \in 1..(n * Len(s)) |-> s[((k - 1) % Len(s)) + 1]]

(***************************************************************************)
(* SearchEngine.search (src/websearch.py)                                  *)
(***************************************************************************)
\* lines 159 and 167: the snippet starts this many characters before the match
SnippetBefore == 50
\* lines 160 and 168: and ends this many characters after it
SnippetAfter == 100

Ellipsis == <<".", ".", ".">>

\* The query compared as it was typed.
NeedleAsTyped(q, cs) == q

\* lines 150-151: the query as it is compared.
Needle(q, cs) == IF cs THEN q ELSE lower(q)

\* lines 153-154: the text the query is looked up in.
Haystack(content, cs) == IF cs THEN content ELSE lower(content)

\* lines 157-161 and 165-169: the snippet around the first occurrence; the
\* position is found in the haystack and the slice is taken from the content.
Snippet(content, q, cs) ==
    LET start_index == find(Haystack(content, cs), Needle(q, cs))
        end_index == start_index + Len(Needle(q, cs))
        snippet_start == Max(0, start_index - SnippetBefore)
        snippet_end == Min(Len(content), end_index + SnippetAfter)
    IN  Ellipsis \o Slice(content, snippet_start, snippet_end) \o Ellipsis

\* lines 155 and 164: the record matches.
Matches(content, q, cs) == Contains(Haystack(content, cs), Needle(q, cs))

\* search(query, case_sensitive): url -> snippet for every matching record, in the
\* order of self.data.  The function has no limit parameter.
search(d, q, cs) ==
    LET hits == SelectSeq(d, LAMBDA row : Matches(row.content, q, cs))
    IN  [k \in DOMAIN hits |->
            [url |-> hits[k].url, snippet |-> Snippet(hits[k].content, q, cs)]]

(***************************************************************************)
(* semantic_search (src/advanced/smart_search.py)                          *)
(***************************************************************************)
\* str.strip()
RECURSIVE lstrip(_)
lstrip(s) == IF s # <<>> /\ Head(s) = " " THEN lstrip(Tail(s)) ELSE s

RECURSIVE rstrip(_)
rstrip(s) == IF s # <<>> /\ s[Len(s)] = " " THEN rstrip(SubSeq(s, 1, Len(s) - 1)) ELSE s

strip(s) == rstrip(lstrip(s))

\* str.split(','): "" gives [""].
RECURSIVE split(_)
split(s) ==
    IF find(s, <<",">>) = -1 THEN <<s>>
    ELSE <<Slice(s, 0, find(s, <<",">>))>> \o split(Slice(s, find(s, <<",">>) + 1, Len(s)))

\* lines 206-210: the stripped, non-empty terms of the model's answer.
Terms(semantic_terms) ==
    SelectSeq([k \in DOMAIN split(semantic_terms) |-> strip(split(semantic_terms)[k])],
              LAMBDA t : t # <<>>)

\* content LIKE '%term%' for a term without wildcard or quote characters.
Like(content, term) == Contains(SqlLower(content), SqlLower(term))

\* LIMIT ?: a negative limit is no limit in SQLite.
Limited(rows, n) == IF n < 0 THEN rows ELSE SubSeq(rows, 1, Min(n, Len(rows)))

\* lines 212-219: the rows of the SELECT.
Select(d, terms, n) ==
    Limited(SelectSeq(d, LAMBDA row : \E k \in DOMAIN terms : Like(row.content, terms[k])), n)

\* semantic_search(query, limit), semantic_terms being what ollama_request answered
\* to the intent prompt ("" when the model is down) and note what it answered to
\* the relevance prompts.  Without a term the WHERE clause is empty, the statement
\* is a syntax error and the except clause returns [] (lines 246-248).
semantic_search(d, q, n, semantic_terms, note) ==
    IF Terms(semantic_terms) = <<>> THEN <<>>
    ELSE [k \in DOMAIN Select(d, Terms(semantic_terms), n) |->
            [url |-> Select(d, Terms(semantic_terms), n)[k].url,
             content |-> Select(d, Terms(semantic_terms), n)[k].content,
             relevance |-> note]]

(***************************************************************************)
(* The inputs of the searches.                                             *)
(***************************************************************************)
\* at most this many records in the store
MaxRecords == 2
\* limit is drawn from -1 .. MaxLimit
MaxLimit == 2

XYZ == <<"X", "Y", "Z">>
xyz == <<"x", "y", "z">>
hello == <<"h", "e", "l", "l", "o">>

Contents ==
    { <<"a", "b", "c">> \o XYZ \o <<"d", "e", "f">>,
      <<"H", "e", "l", "l", "o", " ", "W">>,
      xyz \o <<" ">> \o XYZ,
      Times(<<"p">>, SnippetBefore + 10) \o XYZ \o Times(<<"q">>, SnippetAfter + 20),
      Times(<<"p">>, SnippetBefore) \o xyz \o Times(<<"q">>, SnippetAfter),
      Times(<<"I.">>, SnippetBefore + 1) \o xyz,
      <<>> }

Queries == {XYZ, xyz, hello, <<"q", "q">>, <<>>}

\* What the language model may answer to the intent prompt when it is up.
Answers == { xyz, <<" ">> \o XYZ \o <<",", " ">> \o hello, <<" ", ",", " ">>, <<"Z">> }

\* ollama_request: "" on any failure (lines 77-83).
ollama_request(up, answer) == IF up = "up" THEN answer ELSE <<>>

RowUrls == <<Home, PageA, PageB, PageC>>

Corpora ==
    UNION {{[k \in 1..n |-> [url |-> RowUrls[k], content |-> f[k]]] : f \in [1..n -> Contents]}
            : n \in 0..MaxRecords}

Urls(rs) == {rs[k].url : k \in DOMAIN rs}

\* SearchEngine.search is called; limit is the limit the caller wants, which the
\* function cannot be given.
search_call ==
    /\ crawler = "none" /\ called = "none"
    /\ \E q \in Queries, cs \in BOOLEAN, n \in -1..MaxLimit :
          /\ query' = q /\ case_sensitive' = cs /\ limit' = n
          /\ results' = search(data, q, cs)
    /\ called' = "search"
    /\ again' = <<>>
    /\ UNCHANGED <<crawlVars, data, ollama>>

\* semantic_search is called.
semantic_search_call ==
    /\ crawler = "none" /\ called = "none"
    /\ \E q \in Queries, n \in -1..MaxLimit, up \in {"up", "down"}, a \in Answers :
          /\ query' = q /\ limit' = n /\ ollama' = up
          /\ results' = semantic_search(data, q, n, ollama_request(up, a),
                                        ollama_request(up, <<"n", "o", "t", "e">>))
    /\ called' = "semantic_search"
    /\ case_sensitive' = FALSE
    /\ again' = <<>>
    /\ UNCHANGED <<crawlVars, data>>

\* The same call once more, on the same store.
repeat_call ==
    /\ called # "none" /\ again = <<>>
    /\ \/ /\ called = "search"
          /\ again' = <<Urls(search(data, query, case_sensitive))>>
       \/ /\ called = "semantic_search"
          /\ \E a \in Answers :
                again' = <<Urls(semantic_search(data, query, limit, ollama_request(ollama, a),
                                                ollama_request(ollama, <<"n", "o", "t", "e">>)))>>
    /\ UNCHANGED <<crawlVars, data, called, query, case_sensitive, limit, ollama, results>>

SearchInit ==
    /\ crawler = "none"
    /\ site = SiteScenario
    /\ max_depth = 0
    /\ queue = <<>>
    /\ visited = {}
    /\ scraped_data = Empty
    /\ pc = "idle"
    /\ current = <<site.seed, 0>>
    /\ tasks = <<>>
    /\ visited_urls = {}
    /\ db_lock = 0
    /\ web_pages = <<>>
    /\ run = "idle"
    /\ total = 0
    /\ gets = EmptyBag
    /\ failed = {}
    /\ failures = 0
    /\ commits = <<>>
    /\ pending = <<>>
    /\ db_errors = 0
    /\ data \in Corpora
    /\ called = "none"
    /\ query = <<>>
    /\ case_sensitive = FALSE
    /\ limit = 0
    /\ ollama = "down"
    /\ results = <<>>
    /\ again = <<>>

SearchNext ==
    \/ search_call
    \/ semantic_search_call
    \/ repeat_call

SearchSpec == SearchInit /\ [][SearchNext]_vars

(***************************************************************************)
(* What the claims speak of.                                               *)
(***************************************************************************)
\* The crawl run has ended.
Finished == (crawler = "WebScraper" /\ pc = "done") \/ (crawler = "Ollama" /\ run = "reported")

\* The urls with a record in the store.
Stored ==
    IF crawler = "WebScraper" THEN DOMAIN scraped_data
    ELSE {web_pages[k].url : k \in DOMAIN web_pages}

\* The urls some GET was issued for.
Fetched == {g.url : g \in BagToSet(gets)}

\* The urls of the site.
SiteUrls == DOMAIN site.pages \cup UNION {{PageOf(u).links[k] : k \in DOMAIN PageOf(u).links} : u \in DOMAIN site.pages}

InDomain(u) == u.netloc = site.seed.netloc

\* The in-domain urls at most d link hops from the seed, along in-domain pages.
RECURSIVE Within(_)
Within(d) ==
    IF d < 0 THEN {}
    ELSE IF d = 0 THEN {site.seed}
    ELSE Within(d - 1) \cup
         {l \in SiteUrls : InDomain(l) /\ \E u \in Within(d - 1) :
                              \E k \in DOMAIN PageOf(u).links : PageOf(u).links[k] = l}

\* Every url that is in the frontier or was submitted to a worker.
Scheduled ==
    {queue[k][1] : k \in DOMAIN queue} \cup {tasks[t].url : t \in Calls}

(***************************************************************************)
(* C1. In the concurrent crawler no url is fetched more than once in one   *)
(* run, whatever the interleaving of the workers.                          *)
(***************************************************************************)
C1_NoUrlFetchedTwiceConcurrent ==
    crawler = "Ollama" => \A u \in Fetched : GetCount(u) <= 1

(***************************************************************************)
(* C2. In the sequential crawler the fetcher is invoked at most once for   *)
(* each url in one run.                                                    *)
(***************************************************************************)
C2_NoUrlFetchedTwiceSequential ==
    crawler = "WebScraper" => \A u \in Fetched : GetCount(u) <= 1

(***************************************************************************)
(* C3. No GET is ever issued at a depth above max_depth, in either         *)
(* crawler, max_depth below 0 included.                                    *)
(***************************************************************************)
C3_NoFetchBeyondMaxDepth ==
    \A g \in BagToSet(gets) : g.depth <= max_depth

\* Both crawlers' deepest level: a page at depth max_depth >= 1 was fetched.
C3_Witness ==
    /\ Finished /\ max_depth >= 1
    /\ \E g \in BagToSet(gets) : g.depth = max_depth /\ PageOf(g.url).links # <<>>

(***************************************************************************)
(* C4. A link to another host is never enqueued, submitted, fetched or     *)
(* stored, even when its path is the path of an in-domain page.            *)
(***************************************************************************)
C4_OnlySeedHost ==
    \A u \in Scheduled \cup Fetched \cup Stored \cup visited \cup visited_urls : InDomain(u)

\* A page that links to other.com/a was fetched and its links were followed, and
\* the in-domain page /a is stored.
C4_Witness ==
    /\ Finished /\ PageA \in Stored
    /\ \E g \in BagToSet(gets) :
          /\ g.depth < max_depth
          /\ g.url \in Stored
          /\ \E k \in DOMAIN PageOf(g.url).links : PageOf(g.url).links[k] = OtherA

(***************************************************************************)
(* C5. When the run is over, no GET failed and every page has text, the    *)
(* stored urls are exactly the in-domain urls within max_depth hops of the *)
(* seed, in both crawlers and for every schedule.                          *)
(***************************************************************************)
C5_StoreIsReachableSet ==
    (Finished /\ failures = 0 /\ \A u \in Within(max_depth) : PageOf(u).text # "")
        => Stored = Within(max_depth)

(***************************************************************************)
(* C6. A failed GET writes no record, and the run goes on: the failing     *)
(* step leaves the store, the rest of the frontier and the other calls as  *)
(* they are, and the run still ends with nothing pending.                  *)
(***************************************************************************)
\* A step in which a GET fails.
FetchFails == failures' > failures

C6_FailureStep ==
    FetchFails =>
        /\ scraped_data' = scraped_data /\ web_pages' = web_pages
        /\ crawler = "WebScraper" =>
              /\ pc' = "loop"
              /\ Len(queue') >= Len(queue) /\ SubSeq(queue', 1, Len(queue)) = queue
        /\ crawler = "Ollama" =>
              /\ run' = run /\ Len(tasks') = Len(tasks)
              /\ \A t \in Calls : tasks'[t] # tasks[t] =>
                    (tasks'[t].pc = "done" /\ tasks'[t].resp = "err")

C6_NoRecordAfterFailure ==
    /\ crawler = "WebScraper" => \A u \in failed : u \notin DOMAIN scraped_data
    /\ \A t \in Calls : tasks[t].resp = "err" => (~tasks[t].wrote /\ tasks[t].pc = "done")
    /\ Finished => (queue = <<>> /\ \A t \in Calls : tasks[t].pc = "done")

C7_FallsBackToRawQuery ==
    (called = "semantic_search" /\ ollama = "down" /\ query # <<>>) =>
        /\ Urls(results) =
              Urls(Limited(SelectSeq(data, LAMBDA row : Like(row.content, query)), limit))
        /\ \A k \in DOMAIN results : results[k].relevance = <<>>

(***************************************************************************)
(* C8. A search returns at most limit results, and the same call on the    *)
(* same store returns the same set of urls, for SearchEngine.search and    *)
(* for semantic_search.                                                    *)
(***************************************************************************)
C8_DeterministicAndLimited ==
    /\ (called # "none" /\ query # <<>> /\ limit >= 1) => Len(results) <= limit
    /\ again # <<>> => again[1] = Urls(results)

(***************************************************************************)
(* C9. SearchEngine.search returns a record's url if and only if the query *)
(* is a substring of the record's content, both lower-cased unless         *)
(* case_sensitive.                                                         *)
(***************************************************************************)
\* q is a substring of s
IsSubstring(q, s) == \E k \in 1..(Len(s) + 1) : \E n \in k - 1..Len(s) : SubSeq(s, k, n) = q

\* The string as the comparison of this call sees it.
Folded(s) == IF case_sensitive THEN s ELSE lower(s)

C9_MatchIffSubstring ==
    called = "search" =>
        /\ \A k \in DOMAIN data :
              data[k].url \in Urls(results) <=> IsSubstring(Folded(query), Folded(data[k].content))
        /\ Urls(results) \subseteq Urls(data)
        /\ Cardinality(Urls(results)) = Len(results)

\* "hello" matched "Hello W" in a case-insensitive search.
C9_Witness ==
    /\ called = "search" /\ ~case_sensitive /\ query = hello
    /\ \E k \in DOMAIN data :
          /\ data[k].content = <<"H", "e", "l", "l", "o", " ", "W">>
          /\ data[k].url \in Urls(results)

(***************************************************************************)
(* C10. The snippet of a match is "..." + content[max(0, s - 50) :         *)
(* min(len(content), e + 100)] + "...", [s, e) being the first occurrence  *)
(* of the query in the content, and it contains the matched text as the    *)
(* content spells it.                                                      *)
(***************************************************************************)
\* The [s, e) of content that the query matches, under this call's comparison.
MatchesAt(content, s, e) == Folded(Slice(content, s, e)) = Folded(query)

\* The first position of content where the query matches.
FirstStart(content) ==
    CHOOSE s \in 0..Len(content) :
        /\ \E e \in s..Min(Len(content), s + Len(Folded(query))) : MatchesAt(content, s, e)
        /\ \A t \in 0..(s - 1) :
              ~\E e \in t..Min(Len(content), t + Len(Folded(query))) : MatchesAt(content, t, e)

FirstEnd(content) ==
    CHOOSE e \in FirstStart(content)..Len(content) :
        /\ MatchesAt(content, FirstStart(content), e)
        /\ \A f \in FirstStart(content)..(e - 1) : ~MatchesAt(content, FirstStart(content), f)

ContentOf(u) == data[CHOOSE k \in DOMAIN data : data[k].url = u].content

C10_SnippetAroundFirstMatch ==
    called = "search" =>
        \A k \in DOMAIN results :
            LET content == ContentOf(results[k].url)
                s == FirstStart(content)
                e == FirstEnd(content)
            IN  /\ results[k].snippet =
                      Ellipsis \o Slice(content, Max(0, s - SnippetBefore),
                                        Min(Len(content), e + SnippetAfter)) \o Ellipsis
                /\ IsSubstring(Slice(content, s, e), results[k].snippet)

(***************************************************************************)
(* The store.                                                              *)
(***************************************************************************)
Records(tbl) == {tbl[k] : k \in DOMAIN tbl}

\* SELECT content FROM web_pages WHERE url = u
Get(tbl, u) == {r.content : r \in {x \in Records(tbl) : x.url = u}}

\* The row of the most recent commit for the url of commit k.
LastCommit(k) ==
    LET same == {j \in DOMAIN commits : commits[j].url = commits[k].url}
    IN  commits[CHOOSE j \in same : \A x \in same : x <= j]

KeyIsUnique ==
    \A j, k \in DOMAIN web_pages : web_pages[j].url = web_pages[k].url => j = k

ReadsLastCommit ==
    \A k \in DOMAIN commits : Get(web_pages, commits[k].url) = {LastCommit(k).content}

UpsertIsIdempotent ==
    \A u \in {Home, PageA, PageB}, c \in Bodies :
        /\ Upsert(Upsert(web_pages, u, c), u, c) = Upsert(web_pages, u, c)
        /\ Row(u, c) \in Records(web_pages)
              => /\ Records(Upsert(web_pages, u, c)) = Records(web_pages)
                 /\ Len(Upsert(web_pages, u, c)) = Len(web_pages)

\* C11: the store is keyed by url and the last write wins: after any sequence of
\* upserts, two calls writing the same url included, web_pages holds at most one
\* row per url, reading a url gives the content of the most recent commit for it,
\* and repeating an upsert leaves the records of the store as they are.
C11_LastWriteWinsUpsert == KeyIsUnique /\ ReadsLastCommit /\ UpsertIsIdempotent

\* Two calls have committed the same url with different bodies.
C11_Witness ==
    \E j, k \in DOMAIN commits :
        /\ j < k
        /\ commits[j].url = commits[k].url
        /\ commits[j].content # commits[k].content
        /\ Len(web_pages) = 3

\* The calls between their INSERT OR REPLACE and their commit.
Writing == {t \in Calls : tasks[t].pc = "commit"}

\* C12: the store writes of the concurrent crawler are mutually exclusive: at
\* most one call is between its INSERT OR REPLACE and its commit, and it is the
\* holder of db_lock.
C12_WritesMutuallyExclusive ==
    /\ Cardinality(Writing) <= 1
    /\ \A t \in Writing : db_lock = t
    /\ db_lock # 0 => db_lock \in Writing

\* One call is writing while another holds a response and waits for db_lock.
C12_Witness ==
    /\ Cardinality(Writing) = 1
    /\ \E t \in Calls : tasks[t].pc = "store"

\* Every url a crawler holds or has worked on.
Known == Scheduled \cup Fetched \cup Stored \cup visited \cup visited_urls

\* C13: the visited set and the frontier hold urls in normalized form only
\* (query and fragment stripped), so two links that differ only in their query
\* string are crawled and stored at most once per run, in both crawlers.
C13_UrlsAreNormalized ==
    /\ \A u \in Known : sanitize_url(u) = u
    /\ \A u, v \in Fetched \cup Stored : sanitize_url(u) = sanitize_url(v) => u = v

\* The seed is a configuration error: its scheme is not http or https.
SeedIsConfigurationError == site.seed.scheme \notin HttpSchemes

\* What the caller of crawl() / start_crawling() sees: both return None and let
\* no exception out, so a run that has ended has returned.
Outcome == IF Finished THEN "returned" ELSE "running"

\* C14: a configuration error in the seed is fatal and is reported before any
\* fetch is attempted: with such a seed neither crawler issues a GET, and the run
\* does not end as a run that returned normally.
C14_BadSeedIsFatal ==
    SeedIsConfigurationError => gets = EmptyBag /\ Outcome # "returned"

\* The tasks discovered from a page's links: every task but the seed's.
Discovered ==
    {queue[k][2] : k \in {x \in DOMAIN queue : queue[x][2] > 0}}
    \cup {tasks[t].depth : t \in {x \in Calls : tasks[x].parent # 0}}

\* A task at depth max_depth is fetched, and none of its links is enqueued or
\* submitted.
C15_StepAtMaxDepth ==
    /\ (pc = "loop" /\ queue # <<>> /\ Head(queue)[2] = max_depth
           /\ Head(queue)[1] \notin visited)
          => pc' = "get" /\ current' = Head(queue)
    /\ (pc = "scrape" /\ current[2] = max_depth) => queue' = queue
    /\ \A t \in Calls :
          /\ (tasks[t].pc = "queued" /\ tasks'[t].pc # "queued"
                 /\ tasks[t].depth = max_depth /\ is_valid_url(tasks[t].url))
                => tasks'[t].pc = "get"
          /\ (tasks[t].pc = "visit" /\ tasks'[t].pc # "visit"
                 /\ tasks[t].depth = max_depth)
                => tasks'[t].pc = "done" /\ Len(tasks') = Len(tasks)

InFlight == {t \in Calls : tasks[t].pc = "get"}

\* C16: in the concurrent crawler the number of fetches in flight at the same
\* time never exceeds the worker-pool maximum, for every max_depth, nested
\* fan-out included.
C16_FetchesInFlightBounded == Cardinality(InFlight) <= MaxWorkers

\* C17: every crawl run terminates: on any finite link graph, cycles included,
\* and for any max_depth, crawl() empties its queue and returns, and
\* start_crawling returns, no call waiting forever for the calls it submitted.
C17_EveryRunTerminates == <>Finished

\* A run on the cyclic site has ended after a call submitted by a call had
\* itself been waited for.
C17_Witness ==
    /\ Finished /\ site = SiteCycle /\ max_depth >= 2
    /\ \E t \in Calls : tasks[t].depth = 2 /\ tasks[tasks[t].parent].pc = "done"

\* C18: the run of the concurrent crawler ends only after all dispatched work:
\* when start_crawling has reported its total, no call of crawl_page is pending
\* or running, and after the report nothing is written to web_pages and nothing
\* is added to visited_urls.
C18_ReportAfterAllWork ==
    /\ [](run = "reported" =>
            /\ \A t \in Calls : tasks[t].pc = "done"
            /\ db_lock = 0
            /\ total = Cardinality(visited_urls))
    /\ [][run = "reported" =>
            /\ web_pages' = web_pages
            /\ visited_urls' = visited_urls
            /\ tasks' = tasks]_vars

\* The total is reported after a run in which calls submitted calls.
C18_Witness ==
    /\ run = "reported" /\ total >= 3
    /\ \E t \in Calls : tasks[t].depth = 2 /\ tasks[t].wrote

\* C19: in WebScraper.crawl a url is marked visited when its task is accepted
\* into the frontier, so the queue holds at most one task per url and never
\* holds a url that has already been crawled.
C19_QueueHoldsEachUrlOnce ==
    /\ \A j, k \in DOMAIN queue : queue[j][1] = queue[k][1] => j = k
    /\ \A k \in DOMAIN queue : queue[k][1] \notin Fetched

\* The links of the page in hand are enqueued or submitted only if the page's
\* record is written.
C20_SuccessorStep ==
    /\ Len(queue') > Len(queue) => current[1] \in DOMAIN scraped_data'
    /\ Len(tasks') > Len(tasks) =>
          LET p == tasks'[Len(tasks')].parent
          IN  tasks[p].wrote /\ tasks[p].url \in Stored

\* C20: in both crawlers the links of a page are enqueued or submitted only if
\* that page's record was written; a page for which nothing was stored spawns
\* no successors.
C20_SuccessorsOnlyOfStoredPages == [][C20_SuccessorStep]_vars

\* The number of link hops from the seed to u.
Dist(u) ==
    CHOOSE d \in 0..Cardinality(SiteUrls) :
        u \in Within(d) /\ (d = 0 \/ u \notin Within(d - 1))

\* The queue is in level order, and nothing fetched lies below a queued task.
QueueInLevelOrder ==
    /\ \A j, k \in DOMAIN queue : j < k => queue[j][2] <= queue[k][2]
    /\ \A g \in BagToSet(gets) : \A k \in DOMAIN queue : g.depth <= queue[k][2]
    /\ \A g \in BagToSet(gets) : pc \in {"get", "scrape"} => g.depth <= current[2]

InScope(u, seen) ==
    u.scheme \in HttpSchemes /\ u.netloc = site.seed.netloc /\ u \notin seen

\* C22: the scope check accepts a link iff its scheme is http or https, its
\* host is exactly the crawl's domain and it is not visited; in both crawlers a
\* same-host link with another scheme is never enqueued or fetched.
C22_ScopeCheck ==
    /\ \A u \in SiteUrls : is_valid_url(u) <=> InScope(u, visited_urls)
    /\ \A u \in (Scheduled \cup Fetched) \ {site.seed} : InScope(u, {})

\* C23: in the concurrent crawler a url enters visited_urls only after its
\* record is committed: in a run started on an empty store every visited url has
\* a stored record, a url whose fetch failed is never in visited_urls, and the
\* total reported is the number of distinct urls stored during the run.
C23_VisitedAfterCommit ==
    /\ visited_urls \subseteq Stored
    /\ visited_urls \cap failed = {}
    /\ run = "reported" => total = Cardinality(Stored)

\* C24: db_lock is never left held: a call that is not between its INSERT and
\* its commit does not hold it, however the call has ended (normally, after a
\* fetch error, after an error raised by the INSERT or by the commit), and after
\* the run the lock is free.
C24_LockNeverLeftHeld ==
    /\ \A t \in Calls : tasks[t].pc # "commit" => db_lock # t
    /\ db_lock \in Calls \cup {0}
    /\ Finished => db_lock = 0

\* A call has ended on a sqlite3 error raised inside the with block, and another
\* call is inside the with block after it.
C24_Witness ==
    /\ db_errors >= 1
    /\ \E t \in Calls :
          /\ tasks[t].pc = "done" /\ tasks[t].resp = "ok" /\ ~tasks[t].wrote
          /\ \E s \in Calls \ {t} : tasks[s].pc = "commit" /\ db_lock = s

====
